---- MODULE Spec2Model ----
(***************************************************************************)
(* A model of the SGQR payload generator, src/sgqr-generator/              *)
(* sgqr_generator.py: the TLV codec, the CRC-16 engine, the payload        *)
(* assembler generate_payload and the decoder parse_payload.               *)
(*                                                                         *)
(* A Python str is a sequence of characters, each a one-character TLA+     *)
(* string; a Python dict is a function whose DOMAIN is the set of keys     *)
(* present; a Python list is a sequence.  A call that can raise returns    *)
(* [exc |-> "none", value |-> v] or [exc |-> <exception name>].            *)
(***************************************************************************)
EXTENDS Integers, Sequences, FiniteSets, TLC

VARIABLES
  config,        \* the config dict the caller passes to generate_payload
  now,           \* the wall clock read by datetime.now(), as a day number YYYYMMDD
  self_payload,  \* the instance attribute self.payload
  result,        \* the outcome of the latest generate_payload call
  earlier,       \* the outcome of the generate_payload call before that one
  parsed,        \* the outcome of the latest parse_payload call
  crc_pc,        \* calculate_crc16 run step by step: the position in its loops
  crc_data,      \* ... its argument data
  crc_bytes,     \* ... bytes_data
  crc_i,         \* ... the index of the byte being processed
  crc_round,     \* ... the rounds of the inner loop already done on that byte
  crc,           \* ... the register
  crc_out,       \* ... the string it returned
  codec_pc,      \* the codec called directly: what the caller has done so far
  codec_objects, \* ... the list of {"id", "value"} objects the caller holds
  codec_text,    \* ... the string the encoder returned
  codec_tree,    \* ... the outcome of parse_payload on that string or a prefix
  threads        \* calls in progress on one shared instance, one per thread

vars == <<config, now, self_payload, result, earlier, parsed,
          crc_pc, crc_data, crc_bytes, crc_i, crc_round, crc, crc_out,
          codec_pc, codec_objects, codec_text, codec_tree, threads>>

genVars == <<config, now, self_payload, result, earlier, parsed>>
crcVars == <<crc_pc, crc_data, crc_bytes, crc_i, crc_round, crc, crc_out>>
codecVars == <<codec_pc, codec_objects, codec_text, codec_tree>>
threadVars == <<threads>>

----------------------------------------------------------------------------
(* Bounds of the model. *)

MaxSystems == 2      \* payment-system entries in a config
MaxTicks == 1        \* days the clock advances
MaxObjects == 2      \* objects in a list given to the codec
MaxCrcLen == 2       \* characters of a string given to the stepwise CRC run

----------------------------------------------------------------------------
(* Characters and Python's string primitives. *)

\* The printable ASCII characters 32..126 in code order.  Three of them cannot
\* be written in a TLA+ string literal and are named instead.
Printable ==
  <<" ", "!", "DQUOTE", "#", "$", "%", "&", "'", "(", ")", "*", "+", ",", "-", ".", "/",
    "0", "1", "2", "3", "4", "5", "6", "7", "8", "9", ":", ";", "<", "=", ">", "?", "@",
    "A", "B", "C", "D", "E", "F", "G", "H", "I", "J", "K", "L", "M",
    "N", "O", "P", "Q", "R", "S", "T", "U", "V", "W", "X", "Y", "Z",
    "[", "BACKSLASH", "]", "^", "_", "BACKTICK",
    "a", "b", "c", "d", "e", "f", "g", "h", "i", "j", "k", "l", "m",
    "n", "o", "p", "q", "r", "s", "t", "u", "v", "w", "x", "y", "z",
    "{", "|", "}", "~">>

\* One character outside ASCII (E WITH ACUTE, code point 201).
NonAscii == "U+00C9"

Chars == {Printable[k] : k \in 1..Len(Printable)} \cup {NonAscii}

\* ord(c): the code point of a character.
ord == [c \in Chars |->
          IF c = NonAscii THEN 201
          ELSE 31 + (CHOOSE k \in 1..Len(Printable) : Printable[k] = c)]

DecDigits == <<"0", "1", "2", "3", "4", "5", "6", "7", "8", "9">>
HexDigits == <<"0", "1", "2", "3", "4", "5", "6", "7", "8", "9",
               "A", "B", "C", "D", "E", "F">>

IsDigit(c) == c \in {DecDigits[k] : k \in 1..10}
DigitValue(c) == (CHOOSE k \in 1..10 : DecDigits[k] = c) - 1

RECURSIVE Repeat(_, _)
Repeat(c, n) == IF n <= 0 THEN <<>> ELSE <<c>> \o Repeat(c, n - 1)

\* str(n) for an integer n.
RECURSIVE StrNat(_)
StrNat(n) == IF n < 10 THEN <<DecDigits[n + 1]>>
             ELSE StrNat(n \div 10) \o <<DecDigits[(n % 10) + 1]>>
Str(n) == IF n < 0 THEN <<"-">> \o StrNat(0 - n) ELSE StrNat(n)

\* s.zfill(width): zeros are inserted after a leading sign.
zfill(s, width) ==
  IF Len(s) >= width THEN s
  ELSE IF Len(s) > 0 /\ s[1] \in {"+", "-"}
       THEN <<s[1]>> \o Repeat("0", width - Len(s)) \o SubSeq(s, 2, Len(s))
       ELSE Repeat("0", width - Len(s)) \o s

\* format(n, '04X') for n >= 0.
RECURSIVE HexNat(_)
HexNat(n) == IF n < 16 THEN <<HexDigits[n + 1]>>
             ELSE HexNat(n \div 16) \o <<HexDigits[(n % 16) + 1]>>
format04X(n) == LET h == HexNat(n)
                IN Repeat("0", 4 - Len(h)) \o h

\* A call's outcome.
Return(v) == [exc |-> "none", value |-> v]
Raise(e) == [exc |-> e]

\* dict.get(key, default)
Get(d, key, default) == IF key \in DOMAIN d THEN d[key] ELSE default

----------------------------------------------------------------------------
(* encode_tlv and encode_nested_tlv. *)

\* The tag encode_tlv writes: str(tag).zfill(2).
tlv_tag(tag) == zfill(tag, 2)

tlv_length_unpadded(value) == Str(Len(value))

\* The length encode_tlv writes: str(len(value)).zfill(2).
tlv_length(value) == zfill(Str(Len(value)), 2)

encode_tlv(tag, value) == tlv_tag(tag) \o tlv_length(value) \o value

\* result = self.encode_tlv(...) in place of result += ...
encode_nested_tlv_last_only(data_objects) ==
  IF data_objects = <<>> THEN <<>>
  ELSE encode_tlv(data_objects[Len(data_objects)].id,
                  data_objects[Len(data_objects)].value)

RECURSIVE encode_nested_tlv(_)
encode_nested_tlv(data_objects) ==
  IF data_objects = <<>> THEN <<>>
  ELSE encode_nested_tlv(SubSeq(data_objects, 1, Len(data_objects) - 1))
       \o encode_tlv(data_objects[Len(data_objects)].id,
                     data_objects[Len(data_objects)].value)

----------------------------------------------------------------------------
(* calculate_crc16. *)

CRC_POLYNOMIAL == 4129     \* 0x1021
CRC_INIT_VALUE == 65535    \* 0xFFFF

\* a ^ b on non-negative integers, four bits at a time.
RECURSIVE BitXor1(_, _)
BitXor1(a, b) ==
  IF a = 0 THEN b
  ELSE IF b = 0 THEN a
  ELSE (((a % 2) + (b % 2)) % 2) + 2 * BitXor1(a \div 2, b \div 2)

BitXor4 == [a \in 0..15 |-> [b \in 0..15 |-> BitXor1(a, b)]]

RECURSIVE BitXor(_, _)
BitXor(a, b) ==
  IF a = 0 THEN b
  ELSE IF b = 0 THEN a
  ELSE BitXor4[a % 16][b % 16] + 16 * BitXor(a \div 16, b \div 16)

\* data.encode('ascii'): the byte values, or UnicodeEncodeError.
encode_ascii(data) ==
  IF \E k \in 1..Len(data) : ord[data[k]] > 127
  THEN Raise("UnicodeEncodeError")
  ELSE Return([k \in 1..Len(data) |-> ord[data[k]]])

\* crc ^= byte << 8
CrcXorByte(reg, byte) == BitXor(reg, byte * 256)

\* One round of the inner loop, the mask included.
CrcRoundNoXor(reg) == (reg * 2) % 65536

CrcRoundBadPoly(reg) ==
  (IF reg >= 32768 THEN BitXor(reg * 2, 32773) ELSE reg * 2) % 65536

CrcRound(reg) ==
  (IF reg >= 32768 THEN BitXor(reg * 2, CRC_POLYNOMIAL) ELSE reg * 2) % 65536

RECURSIVE CrcRounds(_, _)
CrcRounds(reg, n) == IF n = 0 THEN reg ELSE CrcRounds(CrcRound(reg), n - 1)

\* The outer loop over bytes_data[lo..hi], split in halves to keep the
\* evaluation shallow; the bytes are processed left to right.
RECURSIVE CrcBytes(_, _, _, _)
CrcBytes(bytes, lo, hi, reg) ==
  IF lo > hi THEN reg
  ELSE IF lo = hi THEN CrcRounds(CrcXorByte(reg, bytes[lo]), 8)
  ELSE LET left == CrcBytes(bytes, lo, (lo + hi) \div 2, reg)
       IN IF left >= 0
          THEN CrcBytes(bytes, ((lo + hi) \div 2) + 1, hi, left)
          ELSE left

calculate_crc16(data) ==
  LET bytes_data == encode_ascii(data \o <<"6", "3", "0", "4">>)
  IN IF bytes_data.exc # "none" THEN bytes_data
     ELSE Return(format04X(CrcBytes(bytes_data.value, 1, Len(bytes_data.value),
                                    CRC_INIT_VALUE)))

----------------------------------------------------------------------------
(* generate_payload and the functions it calls. *)

\* Python's None where a str may stand.
None == <<"None">>

\* datetime.now().strftime("%Y%m%d")
strftime(clock) == zfill(Str(clock), 8)

\* a < b for two str values: by code point, a proper prefix first.
StrLess(a, b) ==
  LET m == IF Len(a) < Len(b) THEN Len(a) ELSE Len(b)
      diff == {k \in 1..m : a[k] # b[k]}
  IN IF diff = {} THEN Len(a) < Len(b)
     ELSE LET k == CHOOSE d \in diff : \A e \in diff : d <= e
          IN ord[a[k]] < ord[b[k]]

revision_date_today(sgqr_config, clock) == strftime(clock)

\* sgqr_config.get("revision_date", datetime.now().strftime("%Y%m%d"))
revision_date_of(sgqr_config, clock) ==
  Get(sgqr_config, "revision_date", strftime(clock))

\* The data objects generate_sgqr_id encodes.
sgqr_id_objects(sgqr_config, clock) ==
  << [id |-> <<"0", "0">>, value |-> <<"S", "G", ".", "S", "G", "Q", "R">>],
     [id |-> <<"0", "1">>,
      value |-> Get(sgqr_config, "sgqr_number",
                    <<"2", "5", "0", "6", "2", "6", "3", "4", "8", "1", "2", "4">>)],
     [id |-> <<"0", "2">>,
      value |-> Get(sgqr_config, "version", <<"0", "1", ".", "0", "0", "0", "1">>)],
     [id |-> <<"0", "3">>,
      value |-> Get(sgqr_config, "postal_code", <<"0", "0", "0", "0", "0", "0">>)],
     [id |-> <<"0", "4">>, value |-> Get(sgqr_config, "level", <<"0", "1">>)],
     [id |-> <<"0", "5">>, value |-> Get(sgqr_config, "unit", <<"0", "0", "1">>)],
     [id |-> <<"0", "6">>, value |-> Get(sgqr_config, "misc", <<"0", "0", "0", "0">>)],
     [id |-> <<"0", "7">>, value |-> revision_date_of(sgqr_config, clock)] >>

generate_sgqr_id(sgqr_config, clock) ==
  encode_nested_tlv(sgqr_id_objects(sgqr_config, clock))

\* The data objects generate_payment_system encodes; KeyError when the
\* entry has no "global_identifier" (or a field lacks "id" or "value").
payment_data_objects_lenient(payment_system) ==
  Return(<< [id |-> <<"0", "0">>,
             value |-> Get(payment_system, "global_identifier", <<>>)] >>
         \o Get(payment_system, "fields", <<>>))

payment_data_objects(payment_system) ==
  IF "global_identifier" \notin DOMAIN payment_system
  THEN Raise("KeyError")
  ELSE LET fields == Get(payment_system, "fields", <<>>)
       IN IF \E k \in 1..Len(fields) : ~({"id", "value"} \subseteq DOMAIN fields[k])
          THEN Raise("KeyError")
          ELSE Return(<< [id |-> <<"0", "0">>,
                          value |-> payment_system["global_identifier"]] >>
                      \o [k \in 1..Len(fields) |->
                            [id |-> fields[k]["id"], value |-> fields[k]["value"]]])

generate_payment_system(payment_system) ==
  LET data_objects == payment_data_objects(payment_system)
  IN IF data_objects.exc # "none" THEN data_objects
     ELSE Return(encode_nested_tlv(data_objects.value))

\* The state of a generate_payload call in progress: the local variables
\* payload and next_payment_id, the exception raised so far, and calls, a
\* record of the top-level encode_tlv calls made (tag and value as passed,
\* with the data objects of a nested value).
Frame0 == [payload |-> <<>>, calls |-> <<>>, next_payment_id |-> 26, exc |-> "none"]

\* payload += self.encode_tlv(tag, value)
Emit(st, tag, value, nested) ==
  [st EXCEPT !.payload = @ \o encode_tlv(tag, value),
             !.calls = Append(@, [tag |-> tag, value |-> value, nested |-> nested])]

\* payment_system.get("preferred_id", str(next_payment_id))
payment_id_of(payment_system, next_payment_id) ==
  Get(payment_system, "preferred_id", Str(next_payment_id))

\* if payment_id == str(next_payment_id): next_payment_id += 1
advance_never(payment_id, next_payment_id) == next_payment_id

advance(payment_id, next_payment_id) ==
  IF payment_id = Str(next_payment_id) THEN next_payment_id + 1 ELSE next_payment_id

\* The loop over config["payment_systems"], from entry k on.
RECURSIVE PaymentLoop(_, _, _)
PaymentLoop(systems, k, st) ==
  IF k > Len(systems) \/ st.exc # "none" THEN st
  ELSE LET payment_id == payment_id_of(systems[k], st.next_payment_id)
           payment_data == generate_payment_system(systems[k])
       IN IF payment_data.exc # "none"
          THEN [st EXCEPT !.exc = payment_data.exc]
          ELSE PaymentLoop(systems, k + 1,
                 [Emit(st, payment_id, payment_data.value,
                       payment_data_objects(systems[k]).value)
                    EXCEPT !.next_payment_id = advance(payment_id, @)])

valid_additional_data_ids == {zfill(Str(k), 2) : k \in 1..9}

\* The filter without its test for empty values.
additional_data_objects_keep_empty(additional_data_config) ==
  IF additional_data_config.kind = "dict"
  THEN LET items == additional_data_config.items
           keys == SortSeq([k \in 1..Len(items) |-> items[k].key], StrLess)
           valueOf(key) == (CHOOSE it \in {items[k] : k \in 1..Len(items)} :
                              it.key = key).value
           kept == SelectSeq(keys, LAMBDA key :
                      /\ zfill(key, 2) \in {zfill(Str(k), 2) : k \in 1..9}
                      /\ valueOf(key) # <<"None">>)
       IN [k \in 1..Len(kept) |-> [id |-> zfill(kept[k], 2), value |-> valueOf(kept[k])]]
  ELSE IF additional_data_config.kind = "list"
  THEN LET items == additional_data_config.items
           kept == SelectSeq(items, LAMBDA field :
                      /\ zfill(Get(field, "id", <<>>), 2) \in {zfill(Str(k), 2) : k \in 1..9}
                      /\ Get(field, "value", <<"None">>) # <<"None">>)
       IN [k \in 1..Len(kept) |->
             [id |-> zfill(Get(kept[k], "id", <<>>), 2), value |-> kept[k]["value"]]]
  ELSE <<>>

\* The additional data with its keys in insertion order, not sorted.
additional_data_objects_unsorted(additional_data_config) ==
  IF additional_data_config.kind \in {"dict", "list"}
  THEN LET items == additional_data_config.items
           idOf(it) == IF additional_data_config.kind = "dict" THEN it.key
                       ELSE Get(it, "id", <<>>)
           kept == SelectSeq(items, LAMBDA it :
                      /\ zfill(idOf(it), 2) \in {zfill(Str(k), 2) : k \in 1..9}
                      /\ Get(it, "value", <<"None">>) # <<"None">>
                      /\ Get(it, "value", <<"None">>) # <<>>)
       IN [k \in 1..Len(kept) |-> [id |-> zfill(idOf(kept[k]), 2), value |-> kept[k]["value"]]]
  ELSE <<>>

\* The (id, value) pairs of the additional data the filter keeps, in the
\* order they are encoded.  A dict is given as its items in insertion order.
additional_data_objects(additional_data_config) ==
  IF additional_data_config.kind = "dict"
  THEN LET items == additional_data_config.items
           keys == SortSeq([k \in 1..Len(items) |-> items[k].key], StrLess)
           valueOf(key) == (CHOOSE it \in {items[k] : k \in 1..Len(items)} :
                              it.key = key).value
           kept == SelectSeq(keys, LAMBDA key :
                      /\ zfill(key, 2) \in valid_additional_data_ids
                      /\ valueOf(key) # None
                      /\ valueOf(key) # <<>>)
       IN [k \in 1..Len(kept) |-> [id |-> zfill(kept[k], 2), value |-> valueOf(kept[k])]]
  ELSE IF additional_data_config.kind = "list"
  THEN LET items == additional_data_config.items
           kept == SelectSeq(items, LAMBDA field :
                      /\ zfill(Get(field, "id", <<>>), 2) \in valid_additional_data_ids
                      /\ Get(field, "value", None) # None
                      /\ Get(field, "value", None) # <<>>)
       IN [k \in 1..Len(kept) |->
             [id |-> zfill(Get(kept[k], "id", <<>>), 2), value |-> kept[k]["value"]]]
  ELSE <<>>

merchant_language_objects(cfg) ==
  << [id |-> <<"0", "0">>, value |-> <<"E", "N">>],
     [id |-> <<"0", "1">>,
      value |-> Get(cfg, "merchant_name", <<"M", "E", "R", "C", "H", "A", "N", "T">>)] >>

\* The sections of generate_payload before the CRC, in program order.
GenSections == <<"lead", "payments", "sgqr", "merchant", "extra", "language">>

\* One section of generate_payload run on the frame st: the frame after it.
Section(pc, cfg, clock, st) ==
  CASE pc = "lead" ->
         Emit(Emit(st, <<"0", "0">>, <<"0", "1">>, <<>>),
              <<"0", "1">>, Get(cfg, "initiation_method", <<"1", "1">>), <<>>)
    [] pc = "payments" ->
         PaymentLoop(Get(cfg, "payment_systems", <<>>), 1, st)
    [] pc = "sgqr" ->
         LET sgqr == sgqr_id_objects(Get(cfg, "sgqr_id", <<>>), clock)
         IN Emit(st, <<"5", "1">>, encode_nested_tlv(sgqr), sgqr)
    [] pc = "merchant" ->
         LET s5 == Emit(st, <<"5", "2">>,
                        Get(cfg, "merchant_category_code", <<"0", "0", "0", "0">>), <<>>)
             s6 == Emit(s5, <<"5", "3">>, Get(cfg, "currency", <<"7", "0", "2">>), <<>>)
             s7 == IF "amount" \in DOMAIN cfg
                   THEN Emit(s6, <<"5", "4">>, cfg["amount"], <<>>) ELSE s6
             s8 == Emit(s7, <<"5", "8">>, Get(cfg, "country_code", <<"S", "G">>), <<>>)
             s9 == Emit(s8, <<"5", "9">>,
                        Get(cfg, "merchant_name",
                            <<"M", "E", "R", "C", "H", "A", "N", "T">>), <<>>)
             s10 == Emit(s9, <<"6", "0">>,
                         Get(cfg, "merchant_city",
                             <<"S", "i", "n", "g", "a", "p", "o", "r", "e">>), <<>>)
         IN IF "merchant_postal_code" \in DOMAIN cfg
            THEN Emit(s10, <<"6", "1">>, cfg["merchant_postal_code"], <<>>) ELSE s10
    [] pc = "extra" ->
         LET extra == additional_data_objects(Get(cfg, "additional_data", [kind |-> "None"]))
         IN IF encode_nested_tlv(extra) # <<>>
            THEN Emit(st, <<"6", "2">>, encode_nested_tlv(extra), extra) ELSE st
    [] pc = "language" ->
         LET lang == merchant_language_objects(cfg)
         IN Emit(st, <<"6", "4">>, encode_nested_tlv(lang), lang)

\* The sections from the k-th on, run one after the other on the frame st;
\* an exception ends the run.
RECURSIVE RunSections(_, _, _, _)
RunSections(cfg, clock, k, st) ==
  IF k > Len(GenSections) \/ st.exc # "none" THEN st
  ELSE CHOOSE last \in {RunSections(cfg, clock, k + 1, after) :
                          after \in {Section(GenSections[k], cfg, clock, st)}} : TRUE

\* Steps 1-13 of generate_payload: the frame before the CRC is appended.
PayloadBody(cfg, clock) == RunSections(cfg, clock, 1, Frame0)

\* generate_payload(config), called when the clock reads `clock`.  The
\* value returned is the payload; calls is the record of its encode_tlv calls.
generate_payload_twice_6304(cfg, clock) ==
  LET body == PayloadBody(cfg, clock)
      crcv == calculate_crc16(body.payload \o <<"6", "3", "0", "4">>)
  IN IF body.exc # "none" THEN Raise(body.exc)
     ELSE IF crcv.exc # "none" THEN Raise(crcv.exc)
     ELSE LET st == Emit(body, <<"6", "3">>, crcv.value, <<>>)
          IN [exc |-> "none", value |-> st.payload, calls |-> st.calls]

generate_payload(cfg, clock) ==
  LET body == PayloadBody(cfg, clock)
      crcv == calculate_crc16(body.payload)
  IN IF body.exc # "none" THEN Raise(body.exc)
     ELSE IF crcv.exc # "none" THEN Raise(crcv.exc)
     ELSE LET st == Emit(body, <<"6", "3">>, crcv.value, <<>>)
          IN [exc |-> "none", value |-> st.payload, calls |-> st.calls]

----------------------------------------------------------------------------
(* parse_payload and get_tag_name. *)

MERCHANT_ACCOUNT_TAGS == {zfill(Str(k), 2) : k \in 26..45}

NestingTagsWide ==
  {zfill(Str(k), 2) : k \in 26..99} \cup {<<"5", "1">>, <<"6", "2">>, <<"6", "4">>}

\* The tags whose value parse_payload decodes as nested TLV data.
NestingTags == MERCHANT_ACCOUNT_TAGS \cup {<<"5", "1">>, <<"6", "2">>, <<"6", "4">>}

TOP_LEVEL_TAG_NAMES ==
  (<<"0", "0">> :> "Payload Format Indicator") @@
  (<<"0", "1">> :> "Point of Initiation Method") @@
  (<<"5", "1">> :> "SGQR ID") @@
  (<<"5", "2">> :> "Merchant Category Code") @@
  (<<"5", "3">> :> "Transaction Currency") @@
  (<<"5", "4">> :> "Transaction Amount") @@
  (<<"5", "5">> :> "Tip or Convenience Indicator") @@
  (<<"5", "6">> :> "Value of Convenience Fee Fixed") @@
  (<<"5", "7">> :> "Value of Convenience Fee Percentage") @@
  (<<"5", "8">> :> "Country Code") @@
  (<<"5", "9">> :> "Merchant Name") @@
  (<<"6", "0">> :> "Merchant City") @@
  (<<"6", "1">> :> "Postal Code") @@
  (<<"6", "2">> :> "Additional Data Field Template") @@
  (<<"6", "3">> :> "CRC") @@
  (<<"6", "4">> :> "Merchant Information - Language Template")

SGQR_ID_SUBTAG_NAMES ==
  (<<"0", "0">> :> "SGQR Globally Unique Identifier") @@
  (<<"0", "1">> :> "SGQR ID Number") @@
  (<<"0", "2">> :> "SGQR Version") @@
  (<<"0", "3">> :> "Merchant Postal Code") @@
  (<<"0", "4">> :> "Merchant Level") @@
  (<<"0", "5">> :> "Merchant Unit") @@
  (<<"0", "6">> :> "Miscellaneous") @@
  (<<"0", "7">> :> "Revision Date")

ADDITIONAL_DATA_SUBTAG_NAMES ==
  (<<"0", "1">> :> "Bill Number") @@
  (<<"0", "2">> :> "Mobile Number") @@
  (<<"0", "3">> :> "Store Label") @@
  (<<"0", "4">> :> "Loyalty Number") @@
  (<<"0", "5">> :> "Reference Label") @@
  (<<"0", "6">> :> "Customer Label") @@
  (<<"0", "7">> :> "Terminal Label") @@
  (<<"0", "8">> :> "Purpose of Transaction") @@
  (<<"0", "9">> :> "Additional Consumer Data Request")

MERCHANT_LANGUAGE_SUBTAG_NAMES ==
  (<<"0", "0">> :> "Language Preference") @@
  (<<"0", "1">> :> "Merchant Name - Alternate Language") @@
  (<<"0", "2">> :> "Merchant City - Alternate Language")

\* A display name: a fixed text, or an f-string's text with the tag it holds.
Name(text) == [text |-> text, tag |-> <<>>]
NameWithTag(text, tag) == [text |-> text, tag |-> tag]

\* The parent_tag of a top-level call.
NoParent == None

\* The name looked up in the top-level table whatever the parent.
get_tag_name_top_level(tag, parent_tag) ==
  IF tag \in DOMAIN TOP_LEVEL_TAG_NAMES THEN Name(TOP_LEVEL_TAG_NAMES[tag])
  ELSE NameWithTag("Unknown Tag ", tag)

get_tag_name(tag, parent_tag) ==
  IF parent_tag = NoParent
  THEN IF tag \in DOMAIN TOP_LEVEL_TAG_NAMES THEN Name(TOP_LEVEL_TAG_NAMES[tag])
       ELSE IF tag \in MERCHANT_ACCOUNT_TAGS
            THEN NameWithTag("Merchant Account Information ()", tag)
            ELSE NameWithTag("Unknown Tag ", tag)
  ELSE IF parent_tag \in MERCHANT_ACCOUNT_TAGS
  THEN IF tag = <<"0", "0">> THEN Name("Global Unique Identifier")
       ELSE NameWithTag("Payment System Specific Data ()", tag)
  ELSE IF parent_tag = <<"5", "1">>
  THEN IF tag \in DOMAIN SGQR_ID_SUBTAG_NAMES THEN Name(SGQR_ID_SUBTAG_NAMES[tag])
       ELSE NameWithTag("SGQR ID Data ()", tag)
  ELSE IF parent_tag = <<"6", "2">>
  THEN IF tag \in DOMAIN ADDITIONAL_DATA_SUBTAG_NAMES
       THEN Name(ADDITIONAL_DATA_SUBTAG_NAMES[tag])
       ELSE NameWithTag("Additional Data ()", tag)
  ELSE IF parent_tag = <<"6", "4">>
  THEN IF tag \in DOMAIN MERCHANT_LANGUAGE_SUBTAG_NAMES
       THEN Name(MERCHANT_LANGUAGE_SUBTAG_NAMES[tag])
       ELSE NameWithTag("Merchant Information - Language ()", tag)
  ELSE IF tag \in DOMAIN TOP_LEVEL_TAG_NAMES THEN Name(TOP_LEVEL_TAG_NAMES[tag])
       ELSE NameWithTag("Unknown Tag ", tag)

\* s[a:b] with Python's treatment of negative and out-of-range indices.
SliceIndex(k, n) == IF k < 0 THEN (IF k + n < 0 THEN 0 ELSE k + n)
                    ELSE IF k > n THEN n ELSE k
PySlice(s, a, b) == SubSeq(s, SliceIndex(a, Len(s)) + 1, SliceIndex(b, Len(s)))

IsSpace(c) == c = " "

\* int(s) for a two-character s: digits, with one optional sign before or
\* white space around them; ValueError otherwise (and for a shorter s, which
\* a slice at a negative offset can give).
int(s) ==
  IF Len(s) = 2 /\ IsDigit(s[1]) /\ IsDigit(s[2])
  THEN Return(10 * DigitValue(s[1]) + DigitValue(s[2]))
  ELSE IF Len(s) = 2 /\ IsDigit(s[2]) /\ (IsSpace(s[1]) \/ s[1] = "+")
  THEN Return(DigitValue(s[2]))
  ELSE IF Len(s) = 2 /\ IsDigit(s[2]) /\ s[1] = "-"
  THEN Return(0 - DigitValue(s[2]))
  ELSE IF Len(s) = 2 /\ IsDigit(s[1]) /\ IsSpace(s[2])
  THEN Return(DigitValue(s[1]))
  ELSE IF Len(s) = 1 /\ IsDigit(s[1])
  THEN Return(DigitValue(s[1]))
  ELSE Raise("ValueError")

RECURSIVE ParseLoop(_, _, _, _, _)

\* One iteration of the while loop of parse_payload at offset i, past the
\* test that four characters remain: an exception (of int, or of the nested
\* call), the break of a value that runs past the end (stop), or the record
\* obj with the offset value_end the loop goes on from.
ParseField(payload, parent_tag, i) ==
  LET tag == PySlice(payload, i, i + 2)
      length == int(PySlice(payload, i + 2, i + 4))
  IN IF length.exc # "none" THEN length
     ELSE LET value_start == i + 4
              value_end == value_start + length.value
              value == PySlice(payload, value_start, value_end)
              obj == [id |-> tag,
                      name |-> get_tag_name(tag, parent_tag),
                      length |-> zfill(Str(length.value), 2),
                      value |-> value]
              nested == IF tag \in NestingTags
                        THEN ParseLoop(value, tag, 0, {}, <<>>)
                        ELSE Return(<<>>)
          IN IF value_end > Len(payload) THEN [exc |-> "none", stop |-> TRUE]
             ELSE IF nested.exc # "none" THEN nested
             ELSE [exc |-> "none", stop |-> FALSE, value_end |-> value_end,
                   obj |-> IF tag \in NestingTags
                           THEN obj @@ [dataObjects |-> nested.value]
                           ELSE obj]

\* The loop after the iteration at offset i gave `field`.  The offset after a
\* field depends on the offset before it alone, so a loop that comes back to
\* an offset it has left never ends: the outcome is then "diverges".
AfterField(payload, parent_tag, i, visited, records, field) ==
  IF field.exc # "none" THEN field
  ELSE IF field.stop THEN Return(records)
  ELSE IF field.value_end \in visited \cup {i} THEN [exc |-> "diverges"]
  ELSE ParseLoop(payload, parent_tag, field.value_end, visited \cup {i},
                 Append(records, field.obj))

\* The while loop of parse_payload from offset i on, with the records
\* appended so far.
ParseLoop(payload, parent_tag, i, visited, records) ==
  IF ~(i < Len(payload)) \/ i + 4 > Len(payload) THEN Return(records)
  ELSE CHOOSE outcome \in
         {AfterField(payload, parent_tag, i, visited, records, field) :
            field \in {ParseField(payload, parent_tag, i)}} : TRUE

parse_payload(payload, parent_tag) == ParseLoop(payload, parent_tag, 0, {}, <<>>)

----------------------------------------------------------------------------
(* The configs the model builds. *)

EmptyDict == <<>>

\* Payment-system entries.
PsPayNow ==
  [global_identifier |-> <<"S", "G", ".", "P", "A", "Y", "N", "O", "W">>,
   fields |-> << [id |-> <<"0", "1">>, value |-> <<"2">>],
                 [id |-> <<"0", "2">>, value |-> <<"U", "E", "N", "1">>] >>]
PsPreferred26 ==
  [global_identifier |-> <<"C", "O", "M", ".", "G", "R", "A", "B">>,
   preferred_id |-> <<"2", "6">>]
PsPreferred46 ==
  [global_identifier |-> <<"S", "G", ".", "A", "X", "S">>,
   preferred_id |-> <<"4", "6">>,
   fields |-> << [id |-> <<"0", "1">>, value |-> <<"7">>] >>]
PsNoIdentifier ==
  [fields |-> << [id |-> <<"0", "1">>, value |-> <<"2">>] >>]
PsLong ==
  [global_identifier |-> Repeat("G", 96)]
PsPreferred51 ==
  [global_identifier |-> <<"S", "G", ".", "N", "E", "T", "S">>,
   preferred_id |-> <<"5", "1">>]

PaymentSystemChoices ==
  {PsPayNow, PsPreferred26, PsPreferred46, PsNoIdentifier}

PaymentSystemLists ==
  UNION {[1..n -> PaymentSystemChoices] : n \in 0..MaxSystems}

\* The identifier block of test_validator.py's test_config, whole and in part.
SgqrFull ==
  [sgqr_number |-> <<"2", "5", "0", "1", "0", "2", "1", "2", "3", "4", "5", "6">>,
   version |-> <<"0", "1", ".", "0", "0", "0", "1">>,
   postal_code |-> <<"1", "2", "3", "4", "5", "6">>,
   level |-> <<"0", "1">>,
   unit |-> <<"0", "1">>,
   misc |-> <<"T", "E", "S", "T">>,
   revision_date |-> <<"2", "0", "2", "5", "0", "1", "0", "2">>]
SgqrNoDate ==
  [k \in DOMAIN SgqrFull \ {"revision_date"} |-> SgqrFull[k]]
SgqrDateOnly ==
  [revision_date |-> <<"2", "0", "2", "5", "0", "1", "0", "2">>]

SgqrChoices == {EmptyDict, SgqrFull, SgqrNoDate, SgqrDateOnly}

\* Additional data, as a dict (its items in insertion order) and as a list.
ExtraDict ==
  [kind |-> "dict",
   items |-> << [key |-> <<"1">>, value |-> <<"B", "1">>],
                [key |-> <<"1", "0">>, value |-> <<"X">>],
                [key |-> <<"0", "5">>, value |-> <<"R", "E", "F">>],
                [key |-> <<"0", "2">>, value |-> <<>>],
                [key |-> <<"0", "3">>, value |-> None] >>]
ExtraList ==
  [kind |-> "list",
   items |-> << [id |-> <<"0", "7">>, value |-> <<"T", "1">>],
                [id |-> <<"1">>, value |-> <<"B">>],
                [id |-> <<"0", "0">>, value |-> <<"Z">>],
                [id |-> <<"0", "3">>],
                [id |-> <<"0", "2">>, value |-> <<>>] >>]
ExtraListDropped ==
  [kind |-> "list",
   items |-> << [id |-> <<"0", "0">>, value |-> <<"Z">>],
                [id |-> <<"0", "2">>, value |-> <<>>] >>]

\* The dicts holding `key` with one of `values`, and the dict without it.
Optional(key, values) == {EmptyDict} \cup {key :> v : v \in values}

NameHuggs == <<"H", "U", "G", "G", "S", "-", "M", " ", "W", "A", "L", "K">>
NameNonAscii == <<"C", "A", "F", NonAscii>>

\* test_validator.py's test_config.
TestConfig ==
  [merchant_name |-> <<"T", "E", "S", "T", " ", "M", "E", "R", "C", "H", "A", "N", "T">>,
   merchant_city |-> <<"S", "i", "n", "g", "a", "p", "o", "r", "e">>,
   merchant_category_code |-> <<"5", "8", "1", "4">>,
   sgqr_id |-> SgqrFull,
   payment_systems |->
     << [global_identifier |-> <<"c", "o", "m", ".", "t", "e", "s", "t">>,
         fields |-> << [id |-> <<"0", "1">>,
                        value |-> <<"T", "E", "S", "T", "1", "2", "3">>] >>] >>]

ConfigSpace ==
  {"payment_systems" :> ps :
     ps \in PaymentSystemLists
             \cup {<<PsLong>>, <<PsPayNow, PsLong>>, <<PsPreferred51>>}}
  \cup {"sgqr_id" :> sg : sg \in SgqrChoices}
  \cup {a @@ p @@ x :
          a \in Optional("amount", {<<"9", ".", "9", "0">>, <<>>}),
          p \in Optional("merchant_postal_code", {<<"2", "3", "8", "8", "6", "9">>}),
          x \in Optional("additional_data", {ExtraDict, ExtraList, ExtraListDropped})}
  \cup {m @@ n :
          m \in Optional("initiation_method", {<<"1", "2">>}),
          n \in Optional("merchant_name",
                         {NameHuggs, Repeat("A", 90), Repeat("B", 100), NameNonAscii})}
  \cup {TestConfig,
        [country_code |-> <<"S", "G">>, currency |-> <<"7", "0", "2">>,
         merchant_city |-> <<"S", "I", "N", "G", "A", "P", "O", "R", "E">>]}

----------------------------------------------------------------------------
(* The calls. *)

NoCall == [exc |-> "nocall"]

\* A caller builds the payload of its config; `at` records the day of the call.
GeneratePayload ==
  /\ result' = generate_payload(config, now) @@ [at |-> now]
  /\ earlier' = result
  /\ UNCHANGED <<config, now, self_payload, parsed, crcVars, codecVars, threadVars>>

\* A caller decodes the payload the last build returned; `of` records the
\* payload decoded.
ParsePayload ==
  /\ result.exc = "none"
  /\ parsed' = parse_payload(result.value, NoParent) @@ [of |-> result.value]
  /\ UNCHANGED <<config, now, self_payload, result, earlier, crcVars, codecVars, threadVars>>

\* A day passes.
Tick ==
  /\ now < 20261103 + MaxTicks
  /\ now' = now + 1
  /\ UNCHANGED <<config, self_payload, result, earlier, parsed, crcVars, codecVars, threadVars>>

CrcIdle ==
  /\ crc_pc = "idle" /\ crc_data = <<>> /\ crc_bytes = <<>>
  /\ crc_i = 0 /\ crc_round = 0 /\ crc = 0 /\ crc_out = <<>>

CodecIdle ==
  /\ codec_pc = "idle" /\ codec_objects = <<>> /\ codec_text = <<>>
  /\ codec_tree = NoCall

ThreadsIdle == threads = <<>>

\* SGQRGenerator() is constructed and a config is at hand.
Init ==
  /\ config \in ConfigSpace
  /\ now = 20261103
  /\ self_payload = <<>>
  /\ result = NoCall
  /\ earlier = NoCall
  /\ parsed = NoCall
  /\ CrcIdle
  /\ CodecIdle
  /\ ThreadsIdle

Next == GeneratePayload \/ ParsePayload \/ Tick

Spec == Init /\ [][Next]_vars

----------------------------------------------------------------------------
(* calculate_crc16 run one loop step at a time. *)

CrcAlphabet == {"0", "A", "k", NonAscii}

\* The payload text of test_validator.py's test_crc_calculation.
CrcTestVector ==
  <<"0", "0", "0", "2", "0", "1", "0", "1", "0", "2", "1", "1", "5", "2", "0", "4",
    "5", "8", "1", "4", "5", "3", "0", "3", "7", "0", "2", "5", "8", "0", "2", "5",
    "9", "6", "0">>

CrcInputs == UNION {[1..n -> CrcAlphabet] : n \in 0..MaxCrcLen} \cup {CrcTestVector}

\* data + "6304" is encoded and the register is seeded.
CrcEncode ==
  /\ crc_pc = "start"
  /\ LET bytes_data == encode_ascii(crc_data \o <<"6", "3", "0", "4">>)
     IN IF bytes_data.exc # "none"
        THEN /\ crc_pc' = "raised"
             /\ UNCHANGED <<crc_bytes, crc_i, crc>>
        ELSE /\ crc_pc' = "byte"
             /\ crc_bytes' = bytes_data.value
             /\ crc_i' = 1
             /\ crc' = CRC_INIT_VALUE
  /\ UNCHANGED <<crc_data, crc_round, crc_out, genVars, codecVars, threadVars>>

\* for byte in bytes_data: crc ^= byte << 8
CrcNextByte ==
  /\ crc_pc = "byte"
  /\ crc_i <= Len(crc_bytes)
  /\ crc' = CrcXorByte(crc, crc_bytes[crc_i])
  /\ crc_round' = 0
  /\ crc_pc' = "round"
  /\ UNCHANGED <<crc_data, crc_bytes, crc_i, crc_out, genVars, codecVars, threadVars>>

\* One of the 8 rounds of the inner loop.
CrcShift ==
  /\ crc_pc = "round"
  /\ crc' = CrcRound(crc)
  /\ IF crc_round + 1 < 8
     THEN /\ crc_round' = crc_round + 1
          /\ UNCHANGED <<crc_pc, crc_i>>
     ELSE /\ crc_round' = 0
          /\ crc_i' = crc_i + 1
          /\ crc_pc' = "byte"
  /\ UNCHANGED <<crc_data, crc_bytes, crc_out, genVars, codecVars, threadVars>>

\* return format(crc, '04X')
CrcFormat ==
  /\ crc_pc = "byte"
  /\ crc_i > Len(crc_bytes)
  /\ crc_out' = format04X(crc)
  /\ crc_pc' = "done"
  /\ UNCHANGED <<crc_data, crc_bytes, crc_i, crc_round, crc, genVars, codecVars, threadVars>>

InitCrc ==
  /\ config = EmptyDict
  /\ now = 20261103
  /\ self_payload = <<>>
  /\ result = NoCall
  /\ earlier = NoCall
  /\ parsed = NoCall
  /\ crc_pc = "start"
  /\ crc_data \in CrcInputs
  /\ crc_bytes = <<>>
  /\ crc_i = 0 /\ crc_round = 0 /\ crc = 0 /\ crc_out = <<>>
  /\ CodecIdle
  /\ ThreadsIdle

NextCrc == CrcEncode \/ CrcNextByte \/ CrcShift \/ CrcFormat

SpecCrc == InitCrc /\ [][NextCrc]_vars

----------------------------------------------------------------------------
(* The codec called directly: a caller encodes a list of objects and decodes
   the string or a prefix of it. *)

\* The objects a caller encodes: ids known, unknown ("99") and of one digit,
\* values empty, short and of the greatest length two digits can declare.
CodecTags == {<<"0", "0">>, <<"5", "9">>, <<"9", "9">>}
CodecValues == {<<>>, <<"0", "1">>, NameHuggs}

CodecObjects == {[id |-> t, value |-> v] : t \in CodecTags, v \in CodecValues}

CodecInputs ==
  UNION {[1..n -> CodecObjects] : n \in 0..MaxObjects}
  \cup {<<[id |-> t, value |-> Repeat("V", n)]>> :
          t \in CodecTags \cup {<<"5">>}, n \in {9, 10, 99}}

\* encode_tlv(obj["id"], obj["value"]) on the first object.
EncodeTlv ==
  /\ codec_pc = "start"
  /\ codec_objects # <<>>
  /\ codec_text' = encode_tlv(codec_objects[1].id, codec_objects[1].value)
  /\ codec_pc' = "field"
  /\ UNCHANGED <<codec_objects, codec_tree, genVars, crcVars, threadVars>>

\* encode_nested_tlv(data_objects)
EncodeNestedTlv ==
  /\ codec_pc = "start"
  /\ codec_text' = encode_nested_tlv(codec_objects)
  /\ codec_pc' = "nested"
  /\ UNCHANGED <<codec_objects, codec_tree, genVars, crcVars, threadVars>>

\* encode_tlv("62", nested): the nested string becomes the value of a block,
\* as generate_payload does with its additional data.
EncodeBlock ==
  /\ codec_pc = "nested"
  /\ codec_tree = NoCall
  /\ codec_text' = encode_tlv(<<"6", "2">>, codec_text)
  /\ codec_pc' = "block"
  /\ UNCHANGED <<codec_objects, codec_tree, genVars, crcVars, threadVars>>

\* parse_payload on the first n characters of the string; `of` records n.
Decode ==
  /\ codec_pc \in {"field", "nested", "block"}
  /\ codec_tree = NoCall
  /\ \E n \in 0..Len(codec_text) :
       codec_tree' = parse_payload(SubSeq(codec_text, 1, n), NoParent) @@ [of |-> n]
  /\ UNCHANGED <<codec_pc, codec_objects, codec_text, genVars, crcVars, threadVars>>

InitCodec ==
  /\ config = EmptyDict
  /\ codec_objects \in CodecInputs
  /\ now = 20261103
  /\ self_payload = <<>>
  /\ result = NoCall
  /\ earlier = NoCall
  /\ parsed = NoCall
  /\ CrcIdle
  /\ codec_pc = "start"
  /\ codec_text = <<>>
  /\ codec_tree = NoCall
  /\ ThreadsIdle

NextCodec == EncodeTlv \/ EncodeNestedTlv \/ EncodeBlock \/ Decode

SpecCodec == InitCodec /\ [][NextCodec]_vars

----------------------------------------------------------------------------
(* Calls in progress at the same time.  Threads call generate_payload and
   parse_payload on generator instances; a call runs section by section and
   any other thread may run between two sections.  threads.attr[i] is the
   payload attribute of instance i, threads.configs the config dicts the
   callers share, threads.run[t] the call of thread t: its position, its
   arguments, its local variables and the value it returned. *)

MaxThreads == 2
ThreadIds == 1..MaxThreads

\* The configs the threads build: two payment systems with additional data,
\* and a payment system that raises after the first one.
ThreadConfigs ==
  << ("payment_systems" :> <<PsPayNow, PsPreferred26>>)
       @@ ("additional_data" :> ExtraDict),
     ("payment_systems" :> <<PsPayNow, PsNoIdentifier>>) >>

\* The payloads the threads decode.
ThreadPayloads ==
  { encode_tlv(<<"6", "2">>, encode_tlv(<<"0", "5">>, <<"R", "E", "F">>))
      \o <<"5", "9", "1", "2">> \o NameHuggs }

ThreadIdle(i) == [pc |-> "idle", self |-> i]

\* The threads are numbered in the order of their calls: thread t makes its
\* call when the threads before it have made theirs.
CallsInOrder(t) == \A u \in ThreadIds : u < t => threads.run[u].pc # "idle"

\* Another thread is inside a call.
OthersRunning(t) ==
  \E u \in ThreadIds \ {t} : threads.run[u].pc \notin {"idle", "done"}

\* The section after pc.
NextSection(pc) ==
  IF pc = "language" THEN "crc"
  ELSE GenSections[(CHOOSE k \in 1..Len(GenSections) : GenSections[k] = pc) + 1]

\* A section that accumulates in the payload attribute of the instance.
RunSection_on_self(pc, cfg, clock, st, attr) ==
  LET after == Section(pc, cfg, clock, [st EXCEPT !.payload = attr])
  IN [frame |-> after, attr |-> after.payload]

\* A section of a call: payload is a local variable of the call (payload = ""
\* at its start, payload += ... in every section), the instance's payload
\* attribute is neither read nor written.
RunSection(pc, cfg, clock, st, attr) ==
  [frame |-> Section(pc, cfg, clock, st), attr |-> attr]

\* Thread t calls generate_payload(config) with one of the shared configs.
ThreadCallGenerate(t) ==
  /\ threads.run[t].pc = "idle"
  /\ CallsInOrder(t)
  /\ \E c \in 1..Len(threads.configs) :
       threads' = [threads EXCEPT !.run[t] =
                     [pc |-> "lead", op |-> "generate", arg |-> c,
                      self |-> threads.run[t].self, frame |-> Frame0,
                      concurrent |-> OthersRunning(t)]]
  /\ UNCHANGED <<genVars, crcVars, codecVars>>

\* Thread t calls parse_payload(payload).
ThreadCallParse(t) ==
  /\ threads.run[t].pc = "idle"
  /\ CallsInOrder(t)
  /\ \E payload \in ThreadPayloads :
       threads' = [threads EXCEPT !.run[t] =
                     [pc |-> "parse", op |-> "parse", arg |-> payload,
                      self |-> threads.run[t].self,
                      concurrent |-> OthersRunning(t)]]
  /\ UNCHANGED <<genVars, crcVars, codecVars>>

\* Thread t runs the next section of its generate_payload call; an exception
\* ends the call.
ThreadSection(t) ==
  LET call == threads.run[t]
  IN /\ call.pc \in {GenSections[k] : k \in 1..Len(GenSections)}
     /\ LET ran == RunSection(call.pc, threads.configs[call.arg], now,
                              call.frame, threads.attr[call.self])
        IN threads' =
             [threads EXCEPT
                !.attr[call.self] = ran.attr,
                !.run[t] =
                  IF ran.frame.exc # "none"
                  THEN [call EXCEPT !.pc = "done", !.frame = ran.frame]
                         @@ [result |-> Raise(ran.frame.exc)]
                  ELSE [call EXCEPT !.pc = NextSection(call.pc), !.frame = ran.frame]]
     /\ UNCHANGED <<genVars, crcVars, codecVars>>

\* Thread t computes the CRC of its payload, appends the CRC field and
\* returns.
ThreadCrc(t) ==
  LET call == threads.run[t]
  IN /\ call.pc = "crc"
     /\ LET crcv == calculate_crc16(call.frame.payload)
            st == Emit(call.frame, <<"6", "3">>, crcv.value, <<>>)
        IN threads' =
             [threads EXCEPT !.run[t] =
                [call EXCEPT !.pc = "done"]
                  @@ [result |->
                        IF crcv.exc # "none" THEN Raise(crcv.exc)
                        ELSE [exc |-> "none", value |-> st.payload, calls |-> st.calls]]]
     /\ UNCHANGED <<genVars, crcVars, codecVars>>

\* Thread t decodes its payload and returns.
ThreadParse(t) ==
  LET call == threads.run[t]
  IN /\ call.pc = "parse"
     /\ threads' = [threads EXCEPT !.run[t] =
                      [call EXCEPT !.pc = "done"]
                        @@ [result |-> parse_payload(call.arg, NoParent)]]
     /\ UNCHANGED <<genVars, crcVars, codecVars>>

\* The generators are constructed (self.payload = ""): one instance shared
\* by all threads, or one instance per thread.
InitThreads ==
  /\ config = EmptyDict
  /\ now = 20261103
  /\ self_payload = <<>>
  /\ result = NoCall
  /\ earlier = NoCall
  /\ parsed = NoCall
  /\ CrcIdle
  /\ CodecIdle
  /\ \E shared \in BOOLEAN :
       threads = [attr |-> [i \in ThreadIds |-> <<>>],
                  configs |-> ThreadConfigs,
                  run |-> [t \in ThreadIds |-> ThreadIdle(IF shared THEN 1 ELSE t)]]

NextThreads ==
  \E t \in ThreadIds :
    \/ ThreadCallGenerate(t)
    \/ ThreadCallParse(t)
    \/ ThreadSection(t)
    \/ ThreadCrc(t)
    \/ ThreadParse(t)

SpecThreads == InitThreads /\ [][NextThreads]_vars

----------------------------------------------------------------------------
(* parse_payload called on text that no encoder produced, one iteration of
   its loop at a time.  codec_text is the text, codec_tree the call in
   progress (the offset i and the records appended so far) and, once the call
   has ended, its outcome. *)

MaxFields == 2

\* The pieces the texts are made of: a leaf, an empty leaf, lengths with a
\* sign or a space, a length that is no numeral, blocks with and without TLV
\* text as value, a merchant-account block whose sub-field 30 holds TLV text,
\* and a value cut short.
RawFields ==
  { <<"5", "9", "0", "1", "X">>,
    <<"0", "0", "0", "0">>,
    <<"5", "9", "+", "1", "X">>,
    <<"5", "9", " ", "1", "X">>,
    <<"5", "9", "-", "1", "X">>,
    <<"0", "0", "-", "4">>,
    <<"5", "9", "A", "B">>,
    <<"6", "2", "0", "4", "A", "B", "C", "D">>,
    <<"6", "2", "0", "5", "0", "1", "0", "1", "X">>,
    <<"2", "6", "0", "9", "3", "0", "0", "5", "0", "1", "0", "1", "X">>,
    <<"5", "9", "0", "5", "X">> }

RECURSIVE Flatten(_)
Flatten(pieces) ==
  IF pieces = <<>> THEN <<>> ELSE Head(pieces) \o Flatten(Tail(pieces))

RawStreams == {Flatten(pieces) : pieces \in UNION {[1..n -> RawFields] : n \in 0..MaxFields}}

Scanning == codec_pc = "scan"

\* while i < len(payload): if i + 4 > len(payload): break
ScanGoesOn ==
  /\ codec_tree.i < Len(codec_text)
  /\ ~(codec_tree.i + 4 > Len(codec_text))

\* One iteration that appends a record and moves the offset.  The records
\* of a loop that does not end are cut off after MaxFields + 1.
ScanField ==
  /\ Scanning /\ ScanGoesOn
  /\ Len(codec_tree.result) <= MaxFields
  /\ LET field == ParseField(codec_text, NoParent, codec_tree.i)
     IN /\ field.exc = "none" /\ ~field.stop
        /\ codec_tree' = [i |-> field.value_end,
                          result |-> Append(codec_tree.result, field.obj)]
  /\ UNCHANGED <<codec_pc, codec_objects, codec_text, genVars, crcVars, threadVars>>

\* The loop ends (the text is used up, fewer than four characters remain, or
\* the value runs past the end) and the call returns its records.
ScanReturn ==
  /\ Scanning
  /\ \/ ~ScanGoesOn
     \/ /\ ScanGoesOn
        /\ LET field == ParseField(codec_text, NoParent, codec_tree.i)
           IN field.exc = "none" /\ field.stop
  /\ codec_pc' = "returned"
  /\ codec_tree' = Return(codec_tree.result)
  /\ UNCHANGED <<codec_objects, codec_text, genVars, crcVars, threadVars>>

\* int raises, in this call or in a nested one, and the exception leaves the
\* call; a nested call that does not end leaves this call hanging.
ScanRaise ==
  /\ Scanning /\ ScanGoesOn
  /\ LET field == ParseField(codec_text, NoParent, codec_tree.i)
     IN /\ field.exc # "none"
        /\ codec_pc' = IF field.exc = "diverges" THEN "hung" ELSE "raised"
        /\ codec_tree' = field
  /\ UNCHANGED <<codec_objects, codec_text, genVars, crcVars, threadVars>>

InitScan ==
  /\ config = EmptyDict
  /\ now = 20261103
  /\ self_payload = <<>>
  /\ result = NoCall
  /\ earlier = NoCall
  /\ parsed = NoCall
  /\ CrcIdle
  /\ ThreadsIdle
  /\ codec_pc = "scan"
  /\ codec_objects = <<>>
  /\ codec_text \in RawStreams
  /\ codec_tree = [i |-> 0, result |-> <<>>]

NextScan == ScanField \/ ScanReturn \/ ScanRaise

SpecScan == InitScan /\ [][NextScan]_vars

----------------------------------------------------------------------------
(* The properties checked. *)

\* CRC-16/CCITT-FALSE by its definition: the message bits, most significant
\* first, followed by 16 zero bits, with the first 16 bits inverted (the
\* register starts at 0xFFFF), divided by x^16 + x^12 + x^5 + 1 over GF(2);
\* the checksum is the remainder.
Generator == <<1, 0, 0, 0, 1, 0, 0, 0, 0, 0, 0, 1, 0, 0, 0, 0, 1>>

MessageBits(bytes) ==
  [k \in 1..(8 * Len(bytes) + 16) |->
     LET bit == IF k > 8 * Len(bytes) THEN 0
                ELSE (bytes[((k - 1) \div 8) + 1] \div (2 ^ (7 - ((k - 1) % 8)))) % 2
     IN IF k <= 16 THEN 1 - bit ELSE bit]

\* The division steps at positions lo..hi, left to right (split in halves to
\* keep the evaluation shallow).
RECURSIVE Divide(_, _, _)
Divide(bits, lo, hi) ==
  IF lo > hi THEN bits
  ELSE IF lo = hi
  THEN IF bits[lo] = 0 THEN bits
       ELSE SubSeq(bits, 1, lo - 1)
            \o [k \in 1..17 |-> (bits[lo + k - 1] + Generator[k]) % 2]
            \o SubSeq(bits, lo + 17, Len(bits))
  ELSE LET left == Divide(bits, lo, (lo + hi) \div 2)
       IN IF Len(left) > 0 THEN Divide(left, ((lo + hi) \div 2) + 1, hi) ELSE left

RECURSIVE BitsValue(_, _)
BitsValue(bits, n) ==
  IF n = 0 THEN 0 ELSE 2 * BitsValue(bits, n - 1) + bits[Len(bits) - 16 + n]

ReferenceCrc(bytes) ==
  BitsValue(Divide(MessageBits(bytes) \o <<>>, 1, 8 * Len(bytes)), 16)

\* The number a string of upper-case hexadecimal digits denotes.
UpperHex == <<"0", "1", "2", "3", "4", "5", "6", "7", "8", "9",
              "A", "B", "C", "D", "E", "F">>

RECURSIVE HexValue(_)
HexValue(s) ==
  IF s = <<>> THEN 0
  ELSE 16 * HexValue(SubSeq(s, 1, Len(s) - 1))
       + ((CHOOSE k \in 1..16 : UpperHex[k] = s[Len(s)]) - 1)

IsUpperHex(s) == \A k \in 1..Len(s) : \E d \in 1..16 : UpperHex[d] = s[k]

AsciiBytes(data) == [k \in 1..Len(data) |-> ord[data[k]]]

\* C10: for every ASCII input, calculate_crc16 returns the reference
\* CRC-16/CCITT-FALSE (polynomial 0x1021, initial value 0xFFFF) of the input
\* followed by the four characters "6304"; the register stays within
\* 0..0xFFFF after every round; and the result is exactly four upper-case
\* hexadecimal characters, zero-padded.
C10_CrcIsCcittFalse ==
  /\ crc \in 0..65535
  /\ crc_pc = "done" =>
       /\ Len(crc_out) = 4
       /\ IsUpperHex(crc_out)
       /\ HexValue(crc_out)
            = ReferenceCrc(AsciiBytes(crc_data \o <<"6", "3", "0", "4">>))
       /\ calculate_crc16(crc_data) = Return(crc_out)

\* C11: the documented checksum vector: calculate_crc16 of
\* "00020101021152045814530370258025960" returns "AFA5".
C11_DocumentedVector ==
  (crc_pc = "done" /\ crc_data = CrcTestVector) => crc_out = <<"A", "F", "A", "5">>

\* The inputs that differ from data in exactly one position, by a printable
\* ASCII character.
OneByteChanges(data) ==
  {[data EXCEPT ![k] = Printable[j]] : k \in 1..Len(data), j \in 1..Len(Printable)}
    \ {data}

\* C12: two ASCII inputs of equal length that differ in exactly one byte
\* position have different checksums.
C12_OneByteChangesCrc ==
  crc_pc = "done" =>
    \A other \in OneByteChanges(crc_data) : calculate_crc16(other) # Return(crc_out)

\* The checksum of the test vector has been computed, and it differs from
\* that of the vector with its last character changed.
C12_Witness ==
  /\ crc_pc = "done"
  /\ crc_data = CrcTestVector
  /\ calculate_crc16([CrcTestVector EXCEPT ![35] = "1"]).value # crc_out

\* An input whose checksum needs two padding zeros has been processed.
C10_Witness ==
  /\ crc_pc = "done"
  /\ crc_data = <<"k">>
  /\ crc_out = <<"0", "0", "E", "8">>

\* A payload has been returned by the latest generate_payload call.
Built == result.exc = "none"

\* The latest parse_payload call decoded the payload of the latest build.
Decoded == Built /\ parsed.exc # "nocall" /\ parsed.of = result.value

Entries == Get(config, "payment_systems", <<>>)

HasPreferred(entry) == "preferred_id" \in DOMAIN entry

AllDigits(s) == \A k \in 1..Len(s) : IsDigit(s[k])

\* C1: in every built payload p the final 8 characters are "6304" followed by
\* the 4-character checksum, the checksum field is the last one emitted, and
\* calculate_crc16(p[:-8]) == p[-4:].
C1_ChecksumLast ==
  Built =>
    LET p == result.value
        n == Len(p)
        last == result.calls[Len(result.calls)]
    IN /\ n >= 8
       /\ SubSeq(p, n - 7, n - 4) = <<"6", "3", "0", "4">>
       /\ calculate_crc16(PySlice(p, 0, -8)) = Return(PySlice(p, n - 4, n))
       /\ last.tag = <<"6", "3">> /\ last.value = PySlice(p, n - 4, n)

\* The payload of test_validator.py's test_config has been built.
C1_Witness == Built /\ config = TestConfig

\* A field as encode_tlv emits it: tag of two decimal digits, length of two
\* decimal digits, the length declared being the character count of the value.
FieldWidthOk(tag, value) ==
  /\ Len(tlv_tag(tag)) = 2 /\ AllDigits(tlv_tag(tag))
  /\ Len(tlv_length(value)) = 2 /\ AllDigits(tlv_length(value))
  /\ int(tlv_length(value)) = Return(Len(value))

\* C2: every field of every built payload, at the top level and inside every
\* nested block, has a tag of exactly two decimal digits and a length of
\* exactly two decimal digits that equals the character count of its value,
\* long values included.
C2_FieldWidths ==
  Built =>
    \A k \in 1..Len(result.calls) :
      LET c == result.calls[k]
      IN /\ FieldWidthOk(c.tag, c.value)
         /\ \A j \in 1..Len(c.nested) :
              FieldWidthOk(c.nested[j].id, c.nested[j].value)

\* C3: generate_payload returns no payload when a field value, leaf or
\* assembled nested block, exceeds 99 characters: no built payload holds a
\* field value longer than 99 characters.
C3_NoFieldOver99 ==
  Built =>
    \A k \in 1..Len(result.calls) :
      LET c == result.calls[k]
      IN /\ Len(c.value) <= 99
         /\ \A j \in 1..Len(c.nested) : Len(c.nested[j].value) <= 99

\* The (id, value) pairs of the children of a decoded record.
Children(record) ==
  IF "dataObjects" \in DOMAIN record
  THEN [k \in 1..Len(record.dataObjects) |->
          [id |-> record.dataObjects[k].id, value |-> record.dataObjects[k].value]]
  ELSE <<>>

\* The decoded tree holds a leaf record `tag` with value `value`.
HasLeaf(tree, tag, value) ==
  \E k \in 1..Len(tree) :
    tree[k].id = tag /\ tree[k].value = value /\ "dataObjects" \notin DOMAIN tree[k]

\* The decoded tree holds a nesting record `tag` with these children.
HasBlock(tree, tag, children) ==
  \E k \in 1..Len(tree) : tree[k].id = tag /\ Children(tree[k]) = children

\* C4: round trip.  Decoding a built payload returns without error and the
\* tree reconstructs the config: the k-th payment-system entry is one nested
\* record whose children are ("00", global identifier) followed by the entry's
\* fields in caller order; the identifier block's eight children carry the
\* supplied or default values; the leaf records 01, 52, 53, 54, 58, 59, 60,
\* 61 and the extra-data children carry the supplied or default values.
C4_RoundTrip ==
  Decoded =>
    /\ parsed.exc = "none"
    /\ LET tree == parsed.value
           extra == IF "additional_data" \in DOMAIN config
                    THEN additional_data_objects(config["additional_data"])
                    ELSE <<>>
       IN /\ \A k \in 1..Len(Entries) :
               /\ 2 + k <= Len(tree)
               /\ Children(tree[2 + k])
                    = << [id |-> <<"0", "0">>,
                          value |-> Entries[k]["global_identifier"]] >>
                      \o Get(Entries[k], "fields", <<>>)
          /\ HasBlock(tree, <<"5", "1">>,
                      sgqr_id_objects(Get(config, "sgqr_id", EmptyDict), result.at))
          /\ HasLeaf(tree, <<"0", "1">>, Get(config, "initiation_method", <<"1", "1">>))
          /\ HasLeaf(tree, <<"5", "2">>,
                     Get(config, "merchant_category_code", <<"0", "0", "0", "0">>))
          /\ HasLeaf(tree, <<"5", "3">>, Get(config, "currency", <<"7", "0", "2">>))
          /\ "amount" \in DOMAIN config => HasLeaf(tree, <<"5", "4">>, config["amount"])
          /\ HasLeaf(tree, <<"5", "8">>, Get(config, "country_code", <<"S", "G">>))
          /\ HasLeaf(tree, <<"5", "9">>,
                     Get(config, "merchant_name",
                         <<"M", "E", "R", "C", "H", "A", "N", "T">>))
          /\ HasLeaf(tree, <<"6", "0">>,
                     Get(config, "merchant_city",
                         <<"S", "i", "n", "g", "a", "p", "o", "r", "e">>))
          /\ "merchant_postal_code" \in DOMAIN config
               => HasLeaf(tree, <<"6", "1">>, config["merchant_postal_code"])
          /\ extra # <<>> => HasBlock(tree, <<"6", "2">>, extra)

\* Two builds have returned a payload: the latest and the one before it.
BuiltTwice == earlier.exc = "none" /\ Built

SuppliesRevisionDate == "revision_date" \in DOMAIN Get(config, "sgqr_id", EmptyDict)

SequentialBefore(k) == Cardinality({j \in 1..(k - 1) : ~HasPreferred(Entries[j])})

\* C6: an entry with a preferred tag is emitted under that tag and never
\* advances the counter, so the entries without a preferred tag receive the
\* tags 26, 27, 28, ... in list order as if the others were not in the list.
C6_PreferredLeavesCounter ==
  Built =>
    \A k \in 1..Len(Entries) :
      result.calls[2 + k].tag
        = IF HasPreferred(Entries[k]) THEN Entries[k]["preferred_id"]
          ELSE Str(26 + SequentialBefore(k))

\* The concatenation of the first n fields emitted.
RECURSIVE EmittedPrefix(_, _)
EmittedPrefix(calls, n) ==
  IF n = 0 THEN <<>>
  ELSE EmittedPrefix(calls, n - 1) \o encode_tlv(calls[n].tag, calls[n].value)

\* C7: when no entry has a preferred tag, the i-th entry is emitted as the
\* top-level field with tag 26 + (i - 1), in list order, right after the
\* initiation-method field and before the identifier block (tag 51).
C7_SequentialTags ==
  (Built /\ \A k \in 1..Len(Entries) : ~HasPreferred(Entries[k])) =>
    LET n == Len(Entries)
        calls == result.calls
        head == EmittedPrefix(calls, n + 3)
    IN /\ calls[1].tag = <<"0", "0">>
       /\ calls[2].tag = <<"0", "1">>
       /\ \A i \in 1..n :
            /\ calls[2 + i].tag = Str(26 + (i - 1))
            /\ calls[2 + i].value = generate_payment_system(Entries[i]).value
       /\ calls[n + 3].tag = <<"5", "1">>
       /\ SubSeq(result.value, 1, Len(head)) = head

\* Two entries without preferred tags have been emitted.
C7_Witness ==
  /\ Built
  /\ Len(Entries) >= 2
  /\ \A k \in 1..Len(Entries) : ~HasPreferred(Entries[k])
  /\ result.calls[4].tag = <<"2", "7">>

\* The top-level tags in the order the assembler is to emit them, the
\* payment-system fields under the tags they were given.
ExpectedOrder ==
  << <<"0", "0">>, <<"0", "1">> >>
  \o [k \in 1..Len(Entries) |-> tlv_tag(result.calls[2 + k].tag)]
  \o << <<"5", "1">>, <<"5", "2">>, <<"5", "3">> >>
  \o (IF "amount" \in DOMAIN config THEN << <<"5", "4">> >> ELSE <<>>)
  \o << <<"5", "8">>, <<"5", "9">>, <<"6", "0">> >>
  \o (IF "merchant_postal_code" \in DOMAIN config THEN << <<"6", "1">> >> ELSE <<>>)
  \o (IF /\ "additional_data" \in DOMAIN config
         /\ additional_data_objects(config["additional_data"]) # <<>>
      THEN << <<"6", "2">> >> ELSE <<>>)
  \o << <<"6", "4">>, <<"6", "3">> >>

\* The fields are emitted in the expected order, field 00 holding "01" and the
\* k-th payment-system field holding the k-th entry.
EmittedInOrder ==
  /\ Len(result.calls) >= 2 + Len(Entries)
  /\ [k \in 1..Len(result.calls) |-> tlv_tag(result.calls[k].tag)] = ExpectedOrder
  /\ result.calls[1].value = <<"0", "1">>
  /\ \A k \in 1..Len(Entries) :
       result.calls[2 + k].value = generate_payment_system(Entries[k]).value
  /\ result.value = EmittedPrefix(result.calls, Len(result.calls))

\* C8: the top-level fields are emitted in the order 00, 01, payment systems,
\* 51, 52, 53, [54], 58, 59, 60, [61], [62], 64, 63, the mandatory ones always
\* present, and parse_payload yields the top-level records in this order.
C8_FieldOrder ==
  /\ Built => EmittedInOrder
  /\ Decoded =>
       /\ parsed.exc = "none"
       /\ [k \in 1..Len(parsed.value) |-> parsed.value[k].id] = ExpectedOrder

\* Some entry of the config has no global identifier.
LacksIdentifier == \E k \in 1..Len(Entries) : "global_identifier" \notin DOMAIN Entries[k]

\* C9: when an entry lacks its global identifier, at whatever position,
\* generate_payload ends in an error and returns no string, and no partial
\* payload is left on the generator instance.
C9_MissingIdentifierFails ==
  (LacksIdentifier /\ result.exc # "nocall") =>
    /\ result.exc = "KeyError"
    /\ "value" \notin DOMAIN result
    /\ self_payload = <<>>

\* A build has failed at its second entry, after the first was assembled.
C9_Witness ==
  /\ result.exc = "KeyError"
  /\ Len(Entries) = 2
  /\ "global_identifier" \in DOMAIN Entries[1]
  /\ "global_identifier" \notin DOMAIN Entries[2]

\* The two decimal digits of n, for n up to 99.
TwoDigits(n) == <<DecDigits[(n \div 10) + 1], DecDigits[(n % 10) + 1]>>

\* A tag of at most two characters, padded with zeros on the left.
PaddedTag(tag) ==
  IF Len(tag) = 2 THEN tag ELSE IF Len(tag) = 1 THEN <<"0">> \o tag ELSE <<"0", "0">>

\* The field a (tag, value) pair is to be encoded as.
ExpectedField(obj) == PaddedTag(obj.id) \o TwoDigits(Len(obj.value)) \o obj.value

\* C13: for a tag of at most two decimal digits and a value of at most 99
\* characters, encode_tlv returns the tag padded to two digits, the value's
\* character count as two padded decimal digits, and the value unchanged:
\* ("00", "01") gives "000201", ("59", "HUGGS-M WALK") gives
\* "5912HUGGS-M WALK"; the result has length 4 + len(value).
C13_EncodeTlv ==
  codec_pc = "field" =>
    LET obj == codec_objects[1]
    IN (Len(obj.id) <= 2 /\ AllDigits(obj.id) /\ Len(obj.value) <= 99) =>
         /\ codec_text = ExpectedField(obj)
         /\ Len(codec_text) = 4 + Len(obj.value)
         /\ obj = [id |-> <<"0", "0">>, value |-> <<"0", "1">>]
              => codec_text = <<"0", "0", "0", "2", "0", "1">>
         /\ obj = [id |-> <<"5", "9">>, value |-> NameHuggs]
              => codec_text = <<"5", "9", "1", "2">> \o NameHuggs

\* A one-digit tag with a 99-character value has been encoded.
C13_Witness ==
  /\ codec_pc = "field"
  /\ codec_objects[1].id = <<"5">>
  /\ Len(codec_objects[1].value) = 99
  /\ SubSeq(codec_text, 1, 4) = <<"0", "5", "9", "9">>

\* The whole string the encoder returned has been decoded.
DecodedWhole == codec_tree # NoCall /\ codec_tree.of = Len(codec_text)

\* The fields of the objects, concatenated in list order.
RECURSIVE ExpectedFields(_)
ExpectedFields(objects) ==
  IF objects = <<>> THEN <<>>
  ELSE ExpectedField(Head(objects)) \o ExpectedFields(Tail(objects))

\* A decoded record is the leaf of this object.
IsLeafOf(record, obj) ==
  /\ record.id = obj.id
  /\ record.length = TwoDigits(Len(obj.value))
  /\ record.value = obj.value
  /\ "dataObjects" \notin DOMAIN record

\* Every object has a two-digit tag outside the nesting set and a value of at
\* most 99 characters.
LeafObjects(objects) ==
  \A k \in 1..Len(objects) :
    /\ Len(objects[k].id) = 2
    /\ objects[k].id \notin NestingTags
    /\ Len(objects[k].value) <= 99

\* C14: codec round trip.  For a list of (tag, value) pairs with two-digit
\* leaf tags and values of at most 99 characters, encode_nested_tlv returns
\* the concatenation of encode_tlv of each pair in list order, and
\* parse_payload of that string returns one record per pair, in the same
\* order, with the same tag, the two-digit length and the same value, and no
\* children; "5912HUGGS-M WALK" decodes to the single leaf 59 / "12" /
\* "HUGGS-M WALK".
C14_CodecRoundTrip ==
  (codec_pc = "nested" /\ LeafObjects(codec_objects)) =>
    /\ codec_text = ExpectedFields(codec_objects)
    /\ DecodedWhole =>
         /\ codec_tree.exc = "none"
         /\ Len(codec_tree.value) = Len(codec_objects)
         /\ \A k \in 1..Len(codec_objects) :
              IsLeafOf(codec_tree.value[k], codec_objects[k])
         /\ codec_text = <<"5", "9", "1", "2">> \o NameHuggs
              => /\ Len(codec_tree.value) = 1
                 /\ codec_tree.value[1].id = <<"5", "9">>
                 /\ codec_tree.value[1].length = <<"1", "2">>
                 /\ codec_tree.value[1].value = NameHuggs

\* A list of two objects, the second with an empty value, has been encoded
\* and decoded.
C14_Witness ==
  /\ codec_pc = "nested"
  /\ DecodedWhole
  /\ Len(codec_objects) = 2
  /\ codec_objects[2].value = <<>>
  /\ codec_tree.exc = "none"
  /\ Len(codec_tree.value) = 2

\* The extra data of the config: its kind and its sub-fields as given.
HasExtra == "additional_data" \in DOMAIN config

ExtraItems == IF HasExtra THEN config["additional_data"].items ELSE <<>>

ExtraId(item) ==
  LET id == IF config["additional_data"].kind = "dict" THEN item.key
            ELSE Get(item, "id", <<>>)
  IN IF Len(id) >= 2 THEN id ELSE PaddedTag(id)

\* A sub-field survives: its id, normalized, is one of 01..09 and its value is
\* neither absent nor empty.
Survives(item) ==
  /\ \E d \in 2..10 : ExtraId(item) = <<"0", DecDigits[d]>>
  /\ "value" \in DOMAIN item
  /\ item.value # None
  /\ item.value # <<>>

Survivors == SelectSeq(ExtraItems, Survives)

SurvivorPairs == [k \in 1..Len(Survivors) |->
                    [id |-> ExtraId(Survivors[k]), value |-> Survivors[k].value]]

\* The positions of the tag-62 fields among the fields emitted.
ExtraCalls == {k \in 1..Len(result.calls) : tlv_tag(result.calls[k].tag) = <<"6", "2">>}

C15_WitnessDropped ==
  /\ Built
  /\ HasExtra
  /\ config["additional_data"] = ExtraListDropped
  /\ ExtraCalls = {}

\* The config with the items of its extra-data mapping inserted in the order
\* order[1], order[2], ...
Reinserted(order) ==
  [config EXCEPT !["additional_data"].items = [k \in 1..Len(ExtraItems) |-> ExtraItems[order[k]]]]

Reversal == [k \in 1..Len(ExtraItems) |-> Len(ExtraItems) + 1 - k]

\* C16: a mapping's sub-fields are emitted in the sorted order of its keys, so
\* mappings holding the same key/value pairs in different insertion orders
\* produce identical payloads.
C16_SortedKeys ==
  (Built /\ HasExtra /\ config["additional_data"].kind = "dict") =>
    /\ \A k \in ExtraCalls :
         result.calls[k].nested
           = LET sorted == SortSeq(Survivors, LAMBDA a, b : StrLess(a.key, b.key))
             IN [j \in 1..Len(sorted) |-> [id |-> ExtraId(sorted[j]), value |-> sorted[j].value]]
    /\ \A order \in Permutations(1..Len(ExtraItems)) :
         additional_data_objects(Reinserted(order)["additional_data"])
           = additional_data_objects(config["additional_data"])
    /\ generate_payload(Reinserted(Reversal), result.at).value = result.value

\* A mapping whose insertion order is not the sorted order of its keys has
\* been emitted, key "05" before key "1".
C16_Witness ==
  /\ Built
  /\ HasExtra
  /\ config["additional_data"] = ExtraDict
  /\ \E k \in ExtraCalls :
       /\ Len(result.calls[k].nested) = 2
       /\ result.calls[k].nested[1].id = <<"0", "5">>
       /\ result.calls[k].nested[2].id = <<"0", "1">>

\* The positions of the fields emitted under `tag`.
CallsWithTag(tag) == {k \in 1..Len(result.calls) : tlv_tag(result.calls[k].tag) = tag}

\* C17: the amount field (tag 54) is omitted when the config has no amount,
\* likewise the postal code field (tag 61), and no empty amount field is ever
\* emitted: a tag-54 field declares a length of at least 01.
C17_NoEmptyAmount ==
  Built =>
    /\ "amount" \notin DOMAIN config => CallsWithTag(<<"5", "4">>) = {}
    /\ "merchant_postal_code" \notin DOMAIN config => CallsWithTag(<<"6", "1">>) = {}
    /\ \A k \in CallsWithTag(<<"5", "4">>) : Len(result.calls[k].value) >= 1

\* s is a prefix of t.
IsPrefix(s, t) == Len(s) <= Len(t) /\ s = SubSeq(t, 1, Len(s))

\* The records the complete fields of the first n characters decode to, when
\* the stream is the encoding of these objects.
RECURSIVE CompleteLeaves(_, _)
CompleteLeaves(objects, n) ==
  IF objects = <<>> \/ Len(ExpectedField(Head(objects))) > n THEN <<>>
  ELSE <<Head(objects)>>
       \o CompleteLeaves(Tail(objects), n - Len(ExpectedField(Head(objects))))

\* Truncation of a stream of well-formed leaf fields: the records returned are
\* those of the complete fields.
TruncationTolerated ==
  (codec_pc = "nested" /\ LeafObjects(codec_objects) /\ codec_tree # NoCall) =>
    /\ codec_tree.exc = "none"
    /\ LET complete == CompleteLeaves(codec_objects, codec_tree.of)
       IN /\ Len(codec_tree.value) = Len(complete)
          /\ \A k \in 1..Len(complete) : IsLeafOf(codec_tree.value[k], complete[k])

\* C18: truncation tolerance of decode.  parse_payload does not raise on a
\* stream of complete well-formed fields followed by a truncated trailer and
\* returns the records of the complete fields; in particular, for every prefix
\* of a built payload the result is a prefix of the top-level records of the
\* full payload.
C18_TruncationTolerance ==
  Decoded =>
    /\ parsed.exc = "none"
    /\ \A n \in 0..Len(result.value) :
         LET cut == parse_payload(SubSeq(result.value, 1, n), NoParent)
         IN cut.exc = "none" /\ IsPrefix(cut.value, parsed.value)

\* A two-digit tag outside the known top-level tags and the nesting set.
UnknownTag(tag) ==
  /\ Len(tag) = 2
  /\ AllDigits(tag)
  /\ tag \notin DOMAIN TOP_LEVEL_TAG_NAMES
  /\ 10 * DigitValue(tag[1]) + DigitValue(tag[2]) \notin (26..45) \cup {51, 62, 64}

\* Every object has an unknown tag or one of the leaf tags 00 and 59, and a
\* value of at most 99 characters.
UnknownOrLeaf(objects) ==
  \A k \in 1..Len(objects) :
    /\ UnknownTag(objects[k].id) \/ objects[k].id \in {<<"0", "0">>, <<"5", "9">>}
    /\ Len(objects[k].value) <= 99

\* The records decoded from the encoded object list: the top-level records of
\* a bare stream, the children of the tag-62 block of a wrapped one.
DecodedRecords ==
  IF codec_pc = "block" THEN codec_tree.value[1].dataObjects ELSE codec_tree.value

\* C19: decoding does not raise on an unrecognized tag.  A well-formed field
\* with a two-digit tag outside the known top-level tags and the nesting set,
\* at the top level or inside a nested block, is returned as a leaf record
\* with its tag, declared length and value unchanged and no children, and the
\* fields after it are decoded too.
C19_UnknownTagsPassThrough ==
  (/\ DecodedWhole
   /\ codec_pc \in {"nested", "block"}
   /\ UnknownOrLeaf(codec_objects)
   /\ codec_pc = "block" => Len(ExpectedFields(codec_objects)) <= 99) =>
    /\ codec_tree.exc = "none"
    /\ codec_pc = "block" =>
         /\ Len(codec_tree.value) = 1
         /\ codec_tree.value[1].id = <<"6", "2">>
         /\ "dataObjects" \in DOMAIN codec_tree.value[1]
    /\ Len(DecodedRecords) = Len(codec_objects)
    /\ \A k \in 1..Len(codec_objects) :
         /\ DecodedRecords[k].id = codec_objects[k].id
         /\ UnknownTag(codec_objects[k].id) =>
              /\ IsLeafOf(DecodedRecords[k], codec_objects[k])
              /\ codec_pc = "nested" =>
                   DecodedRecords[k].name
                     = NameWithTag("Unknown Tag ", codec_objects[k].id)

\* A tag-62 block holding an unknown tag followed by another field has been
\* decoded.
C19_Witness ==
  /\ DecodedWhole
  /\ codec_pc = "block"
  /\ Len(codec_objects) = 2
  /\ UnknownTag(codec_objects[1].id)
  /\ codec_objects[2].id = <<"5", "9">>
  /\ Len(DecodedRecords) = 2
  /\ DecodedRecords[1].id = <<"9", "9">>

\* An unknown tag followed by another field has been decoded at the top level.
C19_WitnessTopLevel ==
  /\ DecodedWhole
  /\ codec_pc = "nested"
  /\ Len(codec_objects) = 2
  /\ UnknownTag(codec_objects[1].id)
  /\ Len(codec_tree.value) = 2

\* Thread t has returned from its call.
Returned(t) == threads.run[t].pc = "done"

\* Thread t returns from its call in this step.
Returns(t) == threads.run[t].pc \notin {"idle", "done"} /\ threads'.run[t].pc = "done"

\* What a call returns when it runs alone.
Alone(call) ==
  IF call.op = "generate" THEN generate_payload(ThreadConfigs[call.arg], now)
  ELSE parse_payload(call.arg, NoParent)

\* C20: under any interleaving of generate_payload and parse_payload calls,
\* on one shared instance or on several, every call returns what it returns
\* when run alone; no step of a call writes the payload attribute of an
\* instance or the config it was given.
C20_CallsDoNotInterfere ==
  [][ /\ \A t \in ThreadIds :
           Returns(t) => threads'.run[t].result = Alone(threads.run[t])
      /\ threads'.attr = [i \in ThreadIds |-> <<>>]
      /\ threads'.configs = ThreadConfigs ]_threads

\* Two builds on one shared instance have both returned, the second called
\* while the first was in progress; the second is the build of the config with
\* two payment systems.
C20_Witness ==
  /\ threads # <<>>
  /\ \A t \in ThreadIds : Returned(t) /\ threads.run[t].self = 1
  /\ \E t \in ThreadIds :
       /\ threads.run[t].concurrent
       /\ threads.run[t].op = "generate"
       /\ threads.run[t].arg = 1
       /\ threads.run[t].result.exc = "none"
  /\ \E t \in ThreadIds :
       /\ ~threads.run[t].concurrent
       /\ threads.run[t].op = "generate"

\* The number a two-digit tag stands for.
TagNumber(tag) == 10 * DigitValue(tag[1]) + DigitValue(tag[2])

\* The tag is one of 26..45.
InAccountRange(tag) == Len(tag) = 2 /\ AllDigits(tag) /\ TagNumber(tag) \in 26..45

\* C21: nesting is decided by a tag in the context of its parent.  A
\* top-level record has children exactly when its tag is one of 26..45, 51,
\* 62, 64, and a sub-field of a merchant-account block whose sub-tag is one
\* of 26..45 is a leaf: its value is not decoded further.
C21_NestingByContext ==
  codec_pc = "returned" =>
    \A k \in 1..Len(codec_tree.value) :
      LET record == codec_tree.value[k]
      IN /\ "dataObjects" \in DOMAIN record
              <=> (InAccountRange(record.id)
                     \/ record.id \in {<<"5", "1">>, <<"6", "2">>, <<"6", "4">>})
         /\ InAccountRange(record.id) =>
              \A j \in 1..Len(record.dataObjects) :
                InAccountRange(record.dataObjects[j].id)
                  => "dataObjects" \notin DOMAIN record.dataObjects[j]

\* C26: parse_payload terminates on every finite text.  In every iteration
\* of the scan the offset grows by at least 4, whatever two characters stand
\* at the length position.
C26_OffsetGrows ==
  [][(Scanning /\ codec_pc' = "scan") => codec_tree'.i >= codec_tree.i + 4]_codecVars

\* C27: parse_payload returns a list of records without raising for every
\* text, a length that is no numeral and a nesting tag whose value is not TLV
\* text included; malformed text only ends the scan early.
C27_ParseNeverRaises ==
  codec_pc \notin {"raised", "hung"}

\* The defaults of the identifier block's sub-fields 01..06.
IdentifierDefaults ==
  << [id |-> <<"0", "1">>, key |-> "sgqr_number",
      default |-> <<"2", "5", "0", "6", "2", "6", "3", "4", "8", "1", "2", "4">>],
     [id |-> <<"0", "2">>, key |-> "version",
      default |-> <<"0", "1", ".", "0", "0", "0", "1">>],
     [id |-> <<"0", "3">>, key |-> "postal_code",
      default |-> <<"0", "0", "0", "0", "0", "0">>],
     [id |-> <<"0", "4">>, key |-> "level", default |-> <<"0", "1">>],
     [id |-> <<"0", "5">>, key |-> "unit", default |-> <<"0", "0", "1">>],
     [id |-> <<"0", "6">>, key |-> "misc", default |-> <<"0", "0", "0", "0">>] >>

\* The eight sub-fields the claim expects for the config, built on `day`.
ExpectedIdentifier(day) ==
  LET supplied == Get(config, "sgqr_id", EmptyDict)
  IN << [id |-> <<"0", "0">>, value |-> <<"S", "G", ".", "S", "G", "Q", "R">>] >>
     \o [k \in 1..6 |->
           [id |-> IdentifierDefaults[k].id,
            value |-> IF IdentifierDefaults[k].key \in DOMAIN supplied
                      THEN supplied[IdentifierDefaults[k].key]
                      ELSE IdentifierDefaults[k].default]]
     \o << [id |-> <<"0", "7">>,
            value |-> IF "revision_date" \in DOMAIN supplied
                      THEN supplied["revision_date"]
                      ELSE zfill(Str(day), 8)] >>

\* The value of the call is the nested TLV of the eight sub-fields.
IsIdentifierBlock(call, day) ==
  /\ call.nested = ExpectedIdentifier(day)
  /\ call.value = ExpectedFields(ExpectedIdentifier(day))

\* C22: every built payload contains exactly one field under tag 51, the
\* identifier block: the nested TLV of the eight sub-fields 00..07 in that
\* order, 00 fixed to "SG.SGQR", each sub-field absent from the config with
\* its own default and each supplied sub-field unchanged.
C22_IdentifierBlock ==
  Built =>
    /\ Cardinality(CallsWithTag(<<"5", "1">>)) = 1
    /\ \A k \in CallsWithTag(<<"5", "1">>) : IsIdentifierBlock(result.calls[k], result.at)

\* The tags of the fields generate_payload emits besides the payment systems.
FixedTags ==
  { <<"0", "0">>, <<"0", "1">>, <<"5", "1">>, <<"5", "2">>, <<"5", "3">>, <<"5", "4">>,
    <<"5", "8">>, <<"5", "9">>, <<"6", "0">>, <<"6", "1">>, <<"6", "2">>, <<"6", "3">>,
    <<"6", "4">> }

\* C24: in every built payload the top-level tags are pairwise distinct: no
\* two payment-system entries are emitted under the same tag and none under
\* the tag of a fixed field.
C24_DistinctTopLevelTags ==
  Built =>
    /\ \A j, k \in 1..Len(result.calls) :
         tlv_tag(result.calls[j].tag) = tlv_tag(result.calls[k].tag) => j = k
    /\ \A k \in 1..Len(Entries) : tlv_tag(result.calls[2 + k].tag) \notin FixedTags

\* C25: every payment-system block emitted under a tag 26..50 is decoded as a
\* nesting record: it has children and the first is sub-tag 00 holding the
\* entry's global identifier.
C25_PaymentBlocksNest ==
  (Decoded /\ parsed.exc = "none" /\ Len(parsed.value) = Len(result.calls)) =>
    \A k \in 1..Len(Entries) :
      LET tag == tlv_tag(result.calls[2 + k].tag)
          record == parsed.value[2 + k]
      IN (Len(tag) = 2 /\ AllDigits(tag) /\ TagNumber(tag) \in 26..50) =>
           /\ record.id = tag
           /\ "dataObjects" \in DOMAIN record
           /\ Len(record.dataObjects) >= 1
           /\ record.dataObjects[1].id = <<"0", "0">>
           /\ record.dataObjects[1].value = Entries[k]["global_identifier"]

\* Every record of the tree, at every depth, carries a display name.
RECURSIVE AllNamed(_)
AllNamed(tree) ==
  \A k \in 1..Len(tree) :
    /\ "name" \in DOMAIN tree[k]
    /\ tree[k].name.text # ""
    /\ "dataObjects" \in DOMAIN tree[k] => AllNamed(tree[k].dataObjects)

\* The children of `record` with sub-tag 00 all carry this name.
ZeroNamed(record, text) ==
  \A j \in 1..Len(record.dataObjects) :
    record.dataObjects[j].id = <<"0", "0">>
      => record.dataObjects[j].name = [text |-> text, tag |-> <<>>]

\* C23: every record parse_payload returns, at every depth, carries a display
\* name that depends on the parent: sub-tag 00 is "SGQR Globally Unique
\* Identifier" under the identifier block 51 and "Global Unique Identifier"
\* under a merchant-account block 26..45, and a tag with no entry in the
\* table of its context gets a fallback name that quotes the tag.
C23_NamesByContext ==
  (Decoded /\ parsed.exc = "none") =>
    /\ AllNamed(parsed.value)
    /\ \A k \in 1..Len(parsed.value) :
         LET record == parsed.value[k]
         IN /\ record.id = <<"5", "1">>
                 => ZeroNamed(record, "SGQR Globally Unique Identifier")
            /\ InAccountRange(record.id)
                 => /\ ZeroNamed(record, "Global Unique Identifier")
                    /\ \A j \in 1..Len(record.dataObjects) :
                         record.dataObjects[j].id # <<"0", "0">>
                           => record.dataObjects[j].name.tag = record.dataObjects[j].id
            /\ (record.id \notin DOMAIN TOP_LEVEL_TAG_NAMES /\ ~InAccountRange(record.id))
                 => record.name = [text |-> "Unknown Tag ", tag |-> record.id]

\* A payload with a merchant-account block 26 (sub-fields 00, 01, 02), the
\* identifier block and a block under the unlisted tag 46 has been decoded.
C23_Witness ==
  /\ Decoded /\ parsed.exc = "none"
  /\ Entries = <<PsPayNow, PsPreferred46>>
  /\ Len(parsed.value) = Len(result.calls)
  /\ parsed.value[3].id = <<"2", "6">>
  /\ Len(parsed.value[3].dataObjects) = 3
  /\ parsed.value[4].id = <<"4", "6">>
  /\ parsed.value[5].id = <<"5", "1">>
  /\ Len(parsed.value[5].dataObjects) = 8

====
